---------------------------- MODULE Spec2Model ----------------------------
(***************************************************************************)
(* A model of vivarium_artifact_tools: ArtifactTool (src/artifact_tool.py) *)
(* and BFP_ArtifactTool (src/bfp_artifact_tool.py).                        *)
(*                                                                         *)
(* A pandas cell is a tagged value (an integer or a string); a table is a  *)
(* sequence of rows; a row of a draw table holds its identifier columns    *)
(* (every column but draw and value, in column order), its draw index and  *)
(* its value.  Numbers that pandas holds as floats are exact rationals     *)
(* [n, d] here, so equalities are those of exact arithmetic.               *)
(***************************************************************************)
EXTENDS Integers, Sequences, FiniteSets, TLC

VARIABLES
    table,      \* the DataFrame handed to reduce_draws / append_population
    pop_table,  \* the table stored at /population/structure
    hdf,        \* the other tables of the HDF store, by path
    tool,       \* the tool object: its class, and _risks and _causes as built
                \* at construction
    cache,      \* the lru_cache of every memoized method
    call,       \* the operation that was applied last ("none" at first)
    args,       \* its arguments
    ret,        \* what that operation returned or raised
    reads,      \* the number of reads of the store it made
    evicted     \* whether some cache has evicted an entry so far (history)

vars == <<table, pop_table, hdf, tool, cache, call, args, ret, reads, evicted>>

(***************************************************************************)
(* Cells and strings                                                       *)
(***************************************************************************)
\* a list built from its elements: the sequence f with every element computed
list(f) == f \o <<>>

I(n) == [t |-> "int", i |-> n, s |-> ""]
S(x) == [t |-> "str", i |-> 0, s |-> x]

\* str(x) of Python / astype(str) of pandas, for an int64 or an object cell
str(c) == IF c.t = "int" THEN ToString(c.i) ELSE c.s

\* Python's order on the strings the model uses ('-' < 'A'..'Z' < 'a'..'z',
\* a proper prefix first)
StrOrder == <<"Both", "Female", "Male", "a", "a-b", "all_causes", "b", "b-c",
              "c", "c1", "c2", "cat1", "cat2", "moderate", "r1", "r2", "r3",
              "severe">>

StrRank(x) == CHOOSE k \in 1..Len(StrOrder) : StrOrder[k] = x

CellLess(a, b) ==
    IF a.t = "int" THEN a.i < b.i ELSE StrRank(a.s) < StrRank(b.s)

\* the order sort_values(by=[c1, c2, ...]) puts on the rows' key tuples
TupleLess(x, y) ==
    \E k \in 1..Len(x) :
        /\ \A j \in 1..(k - 1) : x[j] = y[j]
        /\ CellLess(x[k], y[k])

\* the positions of keys in sorted order; rows with equal keys keep their
\* order (pandas sorts several columns with a stable lexsort)
argsort(keys) ==
    LET ks == list(keys)
        n == Len(ks)
        before(j, i) == \/ TupleLess(ks[j], ks[i])
                        \/ (~TupleLess(ks[i], ks[j]) /\ j < i)
        rank == list([i \in 1..n |-> Cardinality({j \in 1..n : before(j, i)}) + 1])
    IN  list([p \in 1..n |-> CHOOSE i \in 1..n : rank[i] = p])

\* table.sort_values(by=columns)
sort_by_columns(rows) ==
    LET perm == argsort([p \in 1..Len(rows) |-> rows[p].id])
    IN  list([p \in 1..Len(rows) |-> rows[perm[p]]])

\* table.sort_values(by=['draw'] + columns)
sort_by_draw_columns(rows) ==
    LET perm == argsort([p \in 1..Len(rows) |-> <<I(rows[p].draw)>> \o rows[p].id])
    IN  list([p \in 1..Len(rows) |-> rows[perm[p]]])

(***************************************************************************)
(* Exact rationals                                                         *)
(***************************************************************************)
RECURSIVE gcd(_, _)
gcd(x, y) == IF y = 0 THEN x ELSE gcd(y, x % y)

\* the fraction n / d in lowest terms (d = 0 stands for numpy's inf or nan)
Rat(n, d) ==
    LET g == gcd(IF n < 0 THEN 0 - n ELSE n, d)
    IN  IF g = 0 THEN [n |-> n, d |-> d] ELSE [n |-> n \div g, d |-> d \div g]
RatLeq(x, y) == x.n * y.d <= y.n * x.d
RatEq(x, y) == x.n * y.d = y.n * x.d

RECURSIVE SeqSum(_)
SeqSum(a) == IF Len(a) = 0 THEN 0 ELSE Head(a) + SeqSum(Tail(a))

\* ndarray.mean()
mean(a) == Rat(SeqSum(a), Len(a))

\* a sorted copy of a sequence of integers
sorted(a) ==
    LET perm == argsort([p \in 1..Len(a) |-> <<I(a[p])>>])
    IN  list([p \in 1..Len(a) |-> a[perm[p]]])

\* a faulty variant: the percentile taken from the other end: q and 100 - q swapped
percentile_swapped(a, q) ==
    LET srt == sorted(a)
        n == Len(a)
        pos == (1000 - q) * (n - 1)
        lo == pos \div 1000
        frac == pos % 1000
        hi == IF lo + 1 < n THEN lo + 1 ELSE lo
    IN  Rat(srt[lo + 1] * 1000 + frac * (srt[hi + 1] - srt[lo + 1]), 1000)

\* np.percentile(a, q) with q given in tenths of a percent (25 is 2.5):
\* linear interpolation between the two order statistics around
\* q/100 * (len(a) - 1)
percentile(a, q) ==
    LET srt == sorted(a)
        n == Len(a)
        pos == q * (n - 1)
        lo == pos \div 1000
        frac == pos % 1000
        hi == IF lo + 1 < n THEN lo + 1 ELSE lo
    IN  Rat(srt[lo + 1] * 1000 + frac * (srt[hi + 1] - srt[lo + 1]), 1000)

LowerQ == 25
UpperQ == 975

(***************************************************************************)
(* ArtifactTool._reduce_draws / BFP_ArtifactTool.reduce_draws              *)
(***************************************************************************)
Ok(rows) == [err |-> "", rows |-> list(rows)]
Raise(e) == [err |-> e, rows |-> <<>>]

\* ID = '-'.join([str(row) for row in row_list])
RECURSIVE join_id(_)
join_id(cells) ==
    IF Len(cells) = 0 THEN ""
    ELSE IF Len(cells) = 1 THEN str(cells[1])
    ELSE str(cells[1]) \o "-" \o join_id(Tail(cells))

\* value_df[col].values of a frame built as pd.DataFrame(values,
\* columns=identifiers): every column whose label is col, so the values of
\* all columns that share the label
RECURSIVE labelled_values(_, _, _, _)
labelled_values(values, identifiers, col, j) ==
    LET k == Len(identifiers)
        ndraws == Len(values) \div k
        column == list([i \in 1..ndraws |-> values[(i - 1) * k + j]])
    IN  IF j > k THEN <<>>
        ELSE (IF identifiers[j] = col THEN column ELSE <<>>)
             \o labelled_values(values, identifiers, col, j + 1)

reduce_draws(tbl) ==
    LET drawless_table == SelectSeq(tbl, LAMBDA r : r.draw = 0)
        result_df == sort_by_columns(drawless_table)
        identifiers == list([j \in 1..Len(result_df) |-> join_id(result_df[j].id)])
        srt == sort_by_draw_columns(tbl)
        values == list([p \in 1..Len(srt) |-> srt[p].value])
        n == Len(tbl)
        k == Len(identifiers)
        stats == list([j \in 1..k |->
                    labelled_values(values, identifiers, identifiers[j], 1)])
    IN  IF k = 0 THEN Raise("ZeroDivisionError")
        ELSE IF (n \div k) * k # n THEN Raise("ValueError")
        ELSE Ok([j \in 1..k |->
                    [id |-> result_df[j].id,
                     value_mean |-> mean(stats[j]),
                     lower |-> percentile(stats[j], LowerQ),
                     upper |-> percentile(stats[j], UpperQ)]])

(***************************************************************************)
(* The tables reduce_draws is applied to                                   *)
(***************************************************************************)
MaxRows == 4

IdKeys == {<<S("a-b"), S("c")>>, <<S("a"), S("b-c")>>, <<S("a"), S("c")>>}
DrawIdx == {0, 1}
Values == {1, 3}

DrawRows == [id : IdKeys, draw : DrawIdx, value : Values]

SmallTables == UNION {[1..n -> DrawRows] : n \in 0..MaxRows}

NoPop == <<>>
NoStore == <<>>
NoTool == [cls |-> "", risks |-> {}, causes |-> {}]
NoCache == <<>>
NoArgs == <<>>

\* the part of the state an application of reduce_draws or of
\* append_population to a table does not involve
Idle ==
    /\ hdf = NoStore
    /\ tool = NoTool
    /\ cache = NoCache
    /\ args = NoArgs
    /\ reads = 0
    /\ evicted = FALSE

InitReduce ==
    /\ Idle
    /\ table \in SmallTables
    /\ pop_table = NoPop
    /\ call = "none"
    /\ ret = Raise("")

ReduceDraws ==
    /\ call = "none"
    /\ call' = "reduce_draws"
    /\ ret' = reduce_draws(table)
    /\ UNCHANGED <<table, pop_table, hdf, tool, cache, args, reads, evicted>>

NextReduce == ReduceDraws

SpecReduce == InitReduce /\ [][NextReduce]_vars

(***************************************************************************)
(* Shapes of a draw table                                                  *)
(***************************************************************************)
IdsOf(tbl) == {tbl[p].id : p \in DOMAIN tbl}
DrawsOf(tbl) == {tbl[p].draw : p \in DOMAIN tbl}
RowsOf(tbl, key) == {p \in DOMAIN tbl : tbl[p].id = key}
Draw0Ids(tbl) == {tbl[p].id : p \in {q \in DOMAIN tbl : tbl[q].draw = 0}}

\* some identifier key has another number of draw rows than another one
Sparse(tbl) ==
    \E k1, k2 \in IdsOf(tbl) :
        Cardinality(RowsOf(tbl, k1)) # Cardinality(RowsOf(tbl, k2))

\* every identifier key appears once for each draw index
DenseGrid(tbl) ==
    \A key \in IdsOf(tbl), d \in DrawsOf(tbl) :
        Cardinality({p \in RowsOf(tbl, key) : tbl[p].draw = d}) = 1

\* the mean of the value column over the input rows of one identifier key
RECURSIVE SumOver(_, _)
SumOver(tbl, ps) ==
    IF ps = {} THEN 0
    ELSE LET p == CHOOSE q \in ps : TRUE
         IN  tbl[p].value + SumOver(tbl, ps \ {p})

OwnMean(tbl, key) ==
    Rat(SumOver(tbl, RowsOf(tbl, key)), Cardinality(RowsOf(tbl, key)))

Reduced == call = "reduce_draws"

(***************************************************************************)
(* C1: every table in which some identifier key has a different number of  *)
(* draw rows than another makes reduce_draws fail and return no summary    *)
(* table, also when the row count is a multiple of the number of draw==0   *)
(* rows.                                                                   *)
(***************************************************************************)
C1_SparseDrawsFail ==
    (Reduced /\ Sparse(table)) => ret.err # ""

(***************************************************************************)
(* C2: on a dense draw grid, in any row order, value_mean of the output    *)
(* row of identifier key k is the mean of the value column over exactly    *)
(* the input rows whose identifier key is k.                               *)
(***************************************************************************)
C2_OwnStatistics ==
    (Reduced /\ DenseGrid(table) /\ ret.err = "") =>
        \A j \in DOMAIN ret.rows :
            RatEq(ret.rows[j].value_mean, OwnMean(table, ret.rows[j].id))

(***************************************************************************)
(* C3: on a dense draw grid reduce_draws returns as many rows as there are *)
(* distinct identifier keys in the draw==0 subset of the input.            *)
(***************************************************************************)
C3_RowCount ==
    (Reduced /\ DenseGrid(table)) =>
        /\ ret.err = ""
        /\ Len(ret.rows) = Cardinality(Draw0Ids(table))

\* What does hold of the code: the statistics are those of the identifier
\* itself when no two identifier keys of the table share a '-'-joined
\* label, and the row count is right when there is a draw==0 row.
DistinctLabels(tbl) ==
    \A k1, k2 \in IdsOf(tbl) : join_id(k1) = join_id(k2) => k1 = k2

OwnStatisticsDistinctLabels ==
    (Reduced /\ DenseGrid(table) /\ DistinctLabels(table) /\ ret.err = "") =>
        \A j \in DOMAIN ret.rows :
            RatEq(ret.rows[j].value_mean, OwnMean(table, ret.rows[j].id))

RowCountWithDraw0 ==
    (Reduced /\ DenseGrid(table) /\ Draw0Ids(table) # {}) =>
        /\ ret.err = ""
        /\ Len(ret.rows) = Cardinality(Draw0Ids(table))

(***************************************************************************)
(* Draw tables with many draws of one identifier: n_high draws of value    *)
(* SkewHigh after draws of value 0, and the small tables of any shape      *)
(***************************************************************************)
MaxSkewDraws == 41
MaxPctRows == 3

SkewHigh == 1 + Cardinality(Values)

SkewedTable(ndraws, n_high) ==
    [p \in 1..ndraws |->
        [id |-> <<S("a"), S("c")>>,
         draw |-> p - 1,
         value |-> IF p <= ndraws - n_high THEN 0 ELSE SkewHigh]]

SkewedTables ==
    {SkewedTable(nd, nh) : nd \in 1..MaxSkewDraws, nh \in {0, 1, 2}}
        \cup {SkewedTable(nd, nd - 1) : nd \in 1..MaxSkewDraws}

InitPercentile ==
    /\ Idle
    /\ table \in SkewedTables \cup UNION {[1..n -> DrawRows] : n \in 0..MaxPctRows}
    /\ pop_table = NoPop
    /\ call = "none"
    /\ ret = Raise("")

SpecPercentile == InitPercentile /\ [][NextReduce]_vars

\* the input rows whose identifier carries the same label as key: the rows
\* whose values enter the statistics of key's output row
LabelRows(tbl, key) ==
    {p \in DOMAIN tbl : join_id(tbl[p].id) = join_id(key)}

\* the draws of the row are not all equal
NonDegenerate(tbl, key) ==
    \E p, q \in LabelRows(tbl, key) : tbl[p].value # tbl[q].value

\* at most one value in forty: the 2.5% tails hold at most one draw
FewDraws(tbl, key) == Cardinality(LabelRows(tbl, key)) * LowerQ <= 1000

Ordered(row) ==
    /\ RatLeq(row.lower, row.value_mean)
    /\ RatLeq(row.value_mean, row.upper)

age(r) == r.id[1]
year(r) == r.id[2]
sex(r) == r.id[3]

\* table_age + table_year + table_sex after astype(str)
table_hash(r) == str(age(r)) \o str(year(r)) \o str(sex(r))

\* pop_table['hash'] = pop_age + pop_year + pop_sex
pop_hash(pr) == str(pr.age) \o str(pr.year) \o str(pr.sex)

\* pop_table[pop_table.hash == hash_key].population.values
hash_matches(pop, hash_key) ==
    SelectSeq(pop, LAMBDA pr : pop_hash(pr) = hash_key)

\* a faulty variant: the matching populations summed: 0 for a key that matches no row
hash_to_pop_sum(pop, hash_key) ==
    LET found == hash_matches(pop, hash_key)
    IN  [err |-> "",
         value |-> SeqSum([p \in 1..Len(found) |-> found[p].population])]

\* float(...) of the matching populations: a value for exactly one match,
\* a TypeError for none or for several
hash_to_pop(pop, hash_key) ==
    LET found == hash_matches(pop, hash_key)
    IN  IF Len(found) = 1
        THEN [err |-> "", value |-> found[1].population]
        ELSE [err |-> "TypeError", value |-> 0]

add_population(tbl, pop) ==
    LET looked == list([p \in 1..Len(tbl) |-> hash_to_pop(pop, table_hash(tbl[p]))])
    IN  IF \E p \in 1..Len(tbl) : looked[p].err # ""
        THEN Raise("TypeError")
        ELSE Ok([p \in 1..Len(tbl) |->
                    [population |-> looked[p].value] @@ tbl[p]])

(***************************************************************************)
(* The tables append_population is applied to                              *)
(***************************************************************************)
MaxPopRows == 2
MaxJoinRows == 1

Ages == {1, 11}
Years == {2016, 12016}
Sexes == {"Male", "Female"}
Populations == {50, 100}

PopRows == {[age |-> I(a), year |-> I(y), sex |-> S(x), population |-> n] :
                a \in Ages, y \in Years, x \in Sexes, n \in Populations}

JoinRows == {[id |-> <<I(a), I(y), S(x)>>] : a \in Ages, y \in Years, x \in Sexes}

InitPopulation ==
    /\ hdf = NoStore /\ tool = NoTool /\ cache = NoCache
    /\ args = NoArgs /\ reads = 0 /\ evicted = FALSE
    /\ table \in UNION {[1..n -> JoinRows] : n \in 0..MaxJoinRows}
    /\ pop_table \in UNION {[1..n -> PopRows] : n \in 0..MaxPopRows}
    /\ call = "none"
    /\ ret = Raise("")

AppendPopulation ==
    /\ call = "none"
    /\ call' = "append_population"
    /\ ret' = add_population(table, pop_table)
    /\ reads' = 1
    /\ UNCHANGED <<table, pop_table, hdf, tool, cache, args, evicted>>

NextPopulation == AppendPopulation

SpecPopulation == InitPopulation /\ [][NextPopulation]_vars

Appended == call = "append_population"

\* the population-structure rows with the age, year and sex of row r
SameTriple(pop, r) ==
    {q \in DOMAIN pop :
        pop[q].age = age(r) /\ pop[q].year = year(r) /\ pop[q].sex = sex(r)}

\* the population-structure rows with the join key of row r
SameKey(pop, r) == {q \in DOMAIN pop : pop_hash(pop[q]) = table_hash(r)}

(***************************************************************************)
(* C4: every input row gets the population of the population-structure row *)
(* with its age, year and sex, whatever the field values, also when the    *)
(* string forms of different triples concatenate to the same join key.     *)
(***************************************************************************)
C4_PopulationOfSameTriple ==
    (Appended /\ \A p \in DOMAIN table :
                    Cardinality(SameTriple(pop_table, table[p])) = 1) =>
        /\ ret.err = ""
        /\ \A p \in DOMAIN ret.rows :
            \E q \in SameTriple(pop_table, table[p]) :
                ret.rows[p].population = pop_table[q].population

(***************************************************************************)
(* C5: when some row's join key (the concatenation of the strings of its   *)
(* age, year and sex) matches no row of the population structure, the call *)
(* fails: no table is returned, no row gets a default or zero population.  *)
(***************************************************************************)
C5_UnmatchedKeyFails ==
    (Appended /\ \E p \in DOMAIN table : SameKey(pop_table, table[p]) = {}) =>
        /\ ret.err # ""
        /\ ret.rows = <<>>

\* a row with an unmatched key was joined against a population structure
\* that is not empty
C5_Witness ==
    /\ Appended
    /\ Len(pop_table) > 0
    /\ \E p \in DOMAIN table : SameKey(pop_table, table[p]) = {}
    /\ ret.err # ""

(***************************************************************************)
(* The artifact: the store, and the catalog built at construction          *)
(*                                                                         *)
(* A path is the tuple of its segments: /risk_factor/r1/exposure is        *)
(* <<"risk_factor", "r1", "exposure">>.  self is the tool object: its      *)
(* store (hdf, pop) and its catalog (risks, causes).                       *)
(***************************************************************************)
\* _parse_paths / _bfp_parse_paths: the names that follow a cause segment
parse_causes(paths) == {q[2] : q \in {pth \in paths : pth[1] = "cause"}}

\* _parse_paths / _bfp_parse_paths: the names that follow a risk_factor segment
parse_risks(paths) == {q[2] : q \in {pth \in paths : pth[1] = "risk_factor"}}

\* what a call gives back: the table returned or the error raised, and the
\* number of reads of the store made on the way
Done(rows, n) == [out |-> Ok(rows), reads |-> n]
Fail(e, n) == [out |-> Raise(e), reads |-> n]

NotARisk == "risk_factor is not in the Artifact"
NotACause == "cause is not in the Artifact"
NoPAF == "all_causes does not have a PAF"
NoSuchTable == "The table does not exist in the hdf"

\* table[table.year == year], then age <= upper, then age >= lower; the age
\* limits are given in hundredths of a year (0.04 is 4, 5 is 500)
for_year_with_age_limit(tbl, yr, lower, upper) ==
    SelectSeq(tbl, LAMBDA r :
        year(r).i = yr /\ 100 * age(r).i <= upper /\ 100 * age(r).i >= lower)

RatAdd(x, y) == Rat(x.n * y.d + y.n * x.d, x.d * y.d)
RatScale(x, k) == Rat(x.n * k, x.d)
RatDiv(x, k) == Rat(x.n, x.d * k)

\* a faulty variant: the means summed without their population weights
RECURSIVE unweighted_sum(_, _)
unweighted_sum(rows, ps) ==
    IF ps = {} THEN Rat(0, 1)
    ELSE LET p == CHOOSE q \in ps : TRUE
         IN  RatAdd(rows[p].value_mean, unweighted_sum(rows, ps \ {p}))

\* (value_mean * population)[group].sum()
RECURSIVE weighted_sum(_, _)
weighted_sum(rows, ps) ==
    IF ps = {} THEN Rat(0, 1)
    ELSE LET p == CHOOSE q \in ps : TRUE
         IN  RatAdd(RatScale(rows[p].value_mean, rows[p].population),
                    weighted_sum(rows, ps \ {p}))

\* population[group].sum()
RECURSIVE population_sum(_, _)
population_sum(rows, ps) ==
    IF ps = {} THEN 0
    ELSE LET p == CHOOSE q \in ps : TRUE
         IN  rows[p].population + population_sum(rows, ps \ {p})

\* a faulty variant: the weighted sum over the number of rows of the group
weighted_average_by_count(rows, ps) ==
    RatDiv(weighted_sum(rows, ps), Cardinality(ps))

\* numerator / denominator of one group
weighted_average(rows, ps) ==
    RatDiv(weighted_sum(rows, ps), population_sum(rows, ps))

\* the key of a row under groupby(by): by names positions of identifier columns
group_key(r, by) == list([c \in 1..Len(by) |-> r.id[by[c]]])

\* table.groupby(by).groups: the group keys in sorted order, each with the
\* positions of its rows
groups_of(rows, by) ==
    LET keys == {group_key(rows[p], by) : p \in DOMAIN rows}
        less == [key \in keys |-> Cardinality({o \in keys : TupleLess(o, key)})]
    IN  list([g \in 1..Cardinality(keys) |->
            LET key == CHOOSE o \in keys : less[o] = g - 1
            IN  [key |-> key,
                 rows |-> {p \in DOMAIN rows : group_key(rows[p], by) = key}]])

\* the columns of the tables of the store, as positions in a row's id
ParameterCol == 4
CauseCol == 5
RiskCol == 4

\* the table at path, filtered, its draws reduced and its population
\* appended (two reads: the table, then /population/structure)
summary_table(self, path, yr, lower, upper) ==
    LET appended(joined) ==
            IF joined.err # "" THEN Fail(joined.err, 2) ELSE Done(joined.rows, 2)
        summarised(reduced) ==
            IF reduced.err # "" THEN Fail(reduced.err, 1)
            ELSE appended(add_population(reduced.rows, self.pop))
    IN  summarised(reduce_draws(
            for_year_with_age_limit(self.hdf[path], yr, lower, upper)))

(***************************************************************************)
(* The metric methods.  Each gives [out, reads]: what the body returns or  *)
(* raises when it runs, and the reads of the store it makes.  a is the     *)
(* argument record [name, year, lower, upper].                             *)
(***************************************************************************)
\* a faulty variant: the table is fetched before the name is looked up in the catalog
exposure_rates_get_first(self, a) ==
    LET path == <<"risk_factor", a.name, "exposure">>
        rates(t) ==
            LET groups == groups_of(t.out.rows, <<ParameterCol>>)
            IN  IF t.out.err # "" THEN t
                ELSE Done([g \in DOMAIN groups |->
                        [parameter |-> groups[g].key[1],
                         rate |-> weighted_average(t.out.rows, groups[g].rows)]], 2)
    IN  IF path \notin DOMAIN self.hdf THEN Fail("KeyError", 1)
        ELSE IF a.name \notin self.risks THEN Fail(NotARisk, 1)
        ELSE rates(summary_table(self, path, a.year, a.lower, a.upper))

\* ArtifactTool.exposure_rates_by_year_with_age_limit
exposure_rates_by_year_with_age_limit(self, a) ==
    LET path == <<"risk_factor", a.name, "exposure">>
        rates(t) ==
            LET groups == groups_of(t.out.rows, <<ParameterCol>>)
            IN  IF t.out.err # "" THEN t
                ELSE Done([g \in DOMAIN groups |->
                        [parameter |-> groups[g].key[1],
                         rate |-> weighted_average(t.out.rows, groups[g].rows)]], 2)
    IN  IF a.name \notin self.risks THEN Fail(NotARisk, 0)
        ELSE IF path \notin DOMAIN self.hdf THEN Fail("KeyError", 1)
        ELSE rates(summary_table(self, path, a.year, a.lower, a.upper))

\* ArtifactTool.relative_risk_by_year_with_age_limit
relative_risk_by_year_with_age_limit(self, a) ==
    LET path == <<"risk_factor", a.name, "relative_risk">>
        risks(t) ==
            LET groups == groups_of(t.out.rows, <<CauseCol, ParameterCol>>)
            IN  IF t.out.err # "" THEN t
                ELSE Done([g \in DOMAIN groups |->
                        [causes |-> groups[g].key[1],
                         parameter |-> groups[g].key[2],
                         risk |-> S(a.name),
                         relative_risk |->
                            weighted_average(t.out.rows, groups[g].rows)]], 2)
    IN  IF a.name \notin self.risks THEN Fail(NotARisk, 0)
        ELSE IF path \notin DOMAIN self.hdf THEN Fail("KeyError", 1)
        ELSE risks(summary_table(self, path, a.year, a.lower, a.upper))

\* a faulty variant: the upper age limit excluded
population_below_upper(self, a) ==
    LET rows == SelectSeq(self.pop, LAMBDA pr :
                    /\ pr.year.i = a.year
                    /\ 100 * pr.age.i < a.upper
                    /\ 100 * pr.age.i >= a.lower)
    IN  Done(<<[value |-> Rat(SeqSum([p \in 1..Len(rows) |-> rows[p].population]), 2)]>>, 1)

\* ArtifactTool.population_for_year_with_age_limit
population_for_year_with_age_limit(self, a) ==
    LET rows == SelectSeq(self.pop, LAMBDA pr :
                    /\ pr.year.i = a.year
                    /\ 100 * pr.age.i <= a.upper
                    /\ 100 * pr.age.i >= a.lower)
    IN  Done(<<[value |-> Rat(SeqSum([p \in 1..Len(rows) |-> rows[p].population]), 2)]>>, 1)

\* self._table_paths of BFP_ArtifactTool: the paths stored in the hdf
table_paths(self) == DOMAIN self.hdf \cup {<<"population", "structure">>}

\* BFP_ArtifactTool._get_table_for_year_with_age_limit, reduce_draws and
\* append_population, as every BFP metric chains them
bfp_summary_table(self, path, a, both_sexes) ==
    LET tbl == for_year_with_age_limit(self.hdf[path], a.year, a.lower, a.upper)
        appended(joined) ==
            IF joined.err # "" THEN Fail(joined.err, 2) ELSE Done(joined.rows, 2)
        summarised(reduced) ==
            IF reduced.err # "" THEN Fail(reduced.err, 1)
            ELSE appended(add_population(reduced.rows, self.pop))
    IN  IF path \notin table_paths(self) THEN Fail(NoSuchTable, 0)
        ELSE summarised(reduce_draws(
                IF both_sexes THEN SelectSeq(tbl, LAMBDA r : sex(r) = S("Both"))
                ELSE tbl))

\* ceam_inputs.risk_factors[risk_factor].levels[cat]: the label of a category
levels(cat) ==
    IF cat = S("cat1") THEN S("severe")
    ELSE IF cat = S("cat2") THEN S("moderate")
    ELSE cat

\* BFP_ArtifactTool._default_result_table, one row of it
default_result_row(a) == [year |-> a.year, sex |-> "Both"]

\* BFP_ArtifactTool.exposure_rates_by_year_with_age_limit
bfp_exposure_rates_by_year_with_age_limit(self, a) ==
    LET results(t) ==
            LET groups == groups_of(t.out.rows, <<ParameterCol>>)
            IN  IF t.out.err # "" THEN t
                ELSE Done([g \in DOMAIN groups |->
                        [risk |-> S(a.name),
                         parameter |-> levels(groups[g].key[1]),
                         exposure_rate |->
                            weighted_average(t.out.rows, groups[g].rows)]
                        @@ default_result_row(a)], 2)
    IN  IF a.name \notin self.risks THEN Fail(NotARisk, 0)
        ELSE results(bfp_summary_table(self,
                <<"risk_factor", a.name, "exposure">>, a, FALSE))

\* BFP_ArtifactTool.relative_risk_by_year_with_age_limit
bfp_relative_risk_by_year_with_age_limit(self, a) ==
    LET results(t) ==
            LET groups == groups_of(t.out.rows, <<CauseCol, ParameterCol>>)
            IN  IF t.out.err # "" THEN t
                ELSE Done([g \in DOMAIN groups |->
                        [risk |-> S(a.name),
                         parameter |-> levels(groups[g].key[2]),
                         cause |-> groups[g].key[1],
                         relative_risk |->
                            weighted_average(t.out.rows, groups[g].rows)]
                        @@ default_result_row(a)], 2)
    IN  IF a.name \notin self.risks THEN Fail(NotARisk, 0)
        ELSE results(bfp_summary_table(self,
                <<"risk_factor", a.name, "relative_risk">>, a, FALSE))

\* BFP_ArtifactTool.PAF_for_year_with_age_limit
PAF_for_year_with_age_limit(self, a) ==
    LET results(t) ==
            LET groups == groups_of(t.out.rows, <<RiskCol>>)
            IN  IF t.out.err # "" THEN t
                ELSE Done([g \in DOMAIN groups |->
                        [cause |-> S(a.name),
                         risk |-> groups[g].key[1],
                         PAF |-> weighted_average(t.out.rows, groups[g].rows)]
                        @@ default_result_row(a)], 2)
    IN  IF a.name \notin self.causes THEN Fail(NotACause, 0)
        ELSE IF a.name = "all_causes" THEN Fail(NoPAF, 0)
        ELSE results(bfp_summary_table(self,
                <<"cause", a.name, "population_attributable_fraction">>, a, FALSE))

\* BFP_ArtifactTool.CSMR_for_year_with_age_limit
CSMR_for_year_with_age_limit(self, a) ==
    LET results(t) ==
            IF t.out.err # "" THEN t
            ELSE Done(<<[cause |-> S(a.name),
                         CSMR |-> weighted_average(t.out.rows, DOMAIN t.out.rows)]
                        @@ default_result_row(a)>>, 2)
    IN  IF a.name \notin self.causes THEN Fail(NotACause, 0)
        ELSE results(bfp_summary_table(self,
                <<"cause", a.name, "cause_specific_mortality">>, a, TRUE))

\* BFP_ArtifactTool.incidence_for_year_with_age_limit
incidence_for_year_with_age_limit(self, a) ==
    LET results(t) ==
            IF t.out.err # "" THEN t
            ELSE Done(<<[cause |-> S(a.name),
                         incidence |-> weighted_average(t.out.rows, DOMAIN t.out.rows)]
                        @@ default_result_row(a)>>, 2)
    IN  IF a.name \notin self.causes THEN Fail(NotACause, 0)
        ELSE results(bfp_summary_table(self, <<"cause", a.name, "incidence">>, a, TRUE))

(***************************************************************************)
(* functools.lru_cache: one cache per memoized method, its entries from    *)
(* the least to the most recently used.  A call gives [out, reads, cache]. *)
(***************************************************************************)
\* the capacity of every cache (32 in the source; the model keeps it small
\* so that caches fill up and evict)
maxsize == 2

Memoized == {"population_for_year_with_age_limit", "population_for_year",
             "exposure_rates_by_year_with_age_limit",
             "relative_risk_by_year_with_age_limit"}

EmptyCache == [m \in Memoized |-> <<>>]

\* a faulty variant: a key that leaves the upper age limit out
cache_key_without_upper(method, a) ==
    IF method = "population_for_year" THEN <<a.year>>
    ELSE IF method = "population_for_year_with_age_limit"
    THEN <<a.year, a.lower>>
    ELSE <<a.name, a.year, a.lower>>

\* the key of a call: the tuple of the arguments the method takes
cache_key(method, a) ==
    IF method = "population_for_year" THEN <<a.year>>
    ELSE IF method = "population_for_year_with_age_limit"
    THEN <<a.year, a.lower, a.upper>>
    ELSE <<a.name, a.year, a.lower, a.upper>>

Plain(r, c) ==
    LET result == r
    IN  [out |-> result.out, reads |-> result.reads, cache |-> c]

\* a call of a memoized method with the cache c; fresh is what running the
\* body gives.  A hit returns the stored value and makes the entry the most
\* recent; a miss runs the body and stores what it returns (nothing when it
\* raises), evicting the least recently used entry of a full cache.
lru_cache(c, method, a, fresh) ==
    LET key == cache_key(method, a)
        entries == c[method]
        hit == {e \in DOMAIN entries : entries[e].key = key}
        e == CHOOSE x \in hit : TRUE
        others == SelectSeq(entries, LAMBDA en : en.key # key)
        ran == fresh
        after == ran.cache[method]
        kept == IF Len(after) >= maxsize THEN Tail(after) ELSE after
    IN  IF hit # {}
        THEN [out |-> entries[e].value, reads |-> 0,
              cache |-> [c EXCEPT ![method] = others \o <<entries[e]>>]]
        ELSE IF ran.out.err # "" THEN ran
        ELSE [out |-> ran.out, reads |-> ran.reads,
              cache |-> [ran.cache EXCEPT ![method] =
                            kept \o <<[key |-> key, value |-> ran.out]>>]]

call_population_for_year_with_age_limit(self, c, a) ==
    lru_cache(c, "population_for_year_with_age_limit", a,
              Plain(population_for_year_with_age_limit(self, a), c))

\* ArtifactTool.population_for_year
call_population_for_year(self, c, a) ==
    lru_cache(c, "population_for_year", a,
              call_population_for_year_with_age_limit(self, c,
                  [a EXCEPT !.lower = 0, !.upper = 100 * 1000]))

\* exposure_rates_by_year_with_age_limit of the object's class
call_exposure_rates(self, c, a) ==
    lru_cache(c, "exposure_rates_by_year_with_age_limit", a,
              Plain(IF self.cls = "BFP_ArtifactTool"
                    THEN bfp_exposure_rates_by_year_with_age_limit(self, a)
                    ELSE exposure_rates_by_year_with_age_limit(self, a), c))

\* relative_risk_by_year_with_age_limit of the object's class
call_relative_risk(self, c, a) ==
    lru_cache(c, "relative_risk_by_year_with_age_limit", a,
              Plain(IF self.cls = "BFP_ArtifactTool"
                    THEN bfp_relative_risk_by_year_with_age_limit(self, a)
                    ELSE relative_risk_by_year_with_age_limit(self, a), c))

RatMul(x, y) == Rat(x.n * y.n, x.d * y.d)
RatMinus1(x) == Rat(x.n - x.d, x.d)

\* x / y; a zero divisor gives a denominator 0 (numpy's inf or nan)
RatQuot(x, y) ==
    IF y.n > 0 THEN Rat(x.n * y.d, x.d * y.n)
    ELSE IF y.n < 0 THEN Rat(0 - x.n * y.d, x.d * (0 - y.n))
    ELSE Rat(x.n * y.d, 0)

RECURSIVE RatSum(_, _)
RatSum(f, ps) ==
    IF ps = {} THEN Rat(0, 1)
    ELSE LET p == CHOOSE q \in ps : TRUE
         IN  RatAdd(f[p], RatSum(f, ps \ {p}))

RatMax(f, ps) == f[CHOOSE p \in ps : \A q \in ps : RatLeq(f[q], f[p])]

\* BFP_ArtifactTool.SEV_for_year_with_age_limit
SEV_for_year_with_age_limit(self, c, a) ==
    LET b == IF a.name = "discontinued_breastfeeding"
             THEN [a EXCEPT !.lower = 50, !.upper = 300]
             ELSE IF a.name = "non_exclusive_breastfeeding"
             THEN [a EXCEPT !.lower = 4, !.upper = 100]
             ELSE a
        \* rr_table.sort_values(by=['cause', 'parameter'])
        sort_values(rr_table) ==
            LET perm == argsort([p \in 1..Len(rr_table) |->
                            <<rr_table[p].cause, rr_table[p].parameter>>])
            IN  list([p \in 1..Len(rr_table) |-> rr_table[perm[p]]])
        results(exposure, rr, tbl) ==
            LET exposure_table == exposure.out.rows
                n_causes == Cardinality({tbl[p].cause : p \in DOMAIN tbl})
                n_exp == Len(exposure_table)
                \* exposure_rate.tolist() * len(rr_table.cause.unique()), by position
                exposure_col == [p \in 1..(n_exp * n_causes) |->
                                 exposure_table[((p - 1) % n_exp) + 1].exposure_rate]
                numerator == [p \in 1..Len(tbl) |->
                                RatMul(tbl[p].relative_risk, exposure_col[p])]
                relative_risk == [p \in 1..Len(tbl) |-> tbl[p].relative_risk]
                groups == groups_of([p \in 1..Len(tbl) |-> [id |-> <<tbl[p].cause>>]],
                                    <<1>>)
                reads_made == exposure.reads + rr.reads
            IN  IF n_exp * n_causes # Len(tbl)
                THEN [out |-> Raise("ValueError"), reads |-> reads_made,
                      cache |-> rr.cache]
                ELSE [out |-> Ok([g \in DOMAIN groups |->
                                [risk |-> S(a.name),
                                 cause |-> groups[g].key[1],
                                 SEV |-> RatQuot(
                                    RatMinus1(RatSum(numerator, groups[g].rows)),
                                    RatMinus1(RatMax(relative_risk, groups[g].rows)))]
                                @@ default_result_row(a)]),
                      reads |-> reads_made,
                      cache |-> rr.cache]
        with_rr(exposure, rr) ==
            IF rr.out.err # ""
            THEN [out |-> rr.out, reads |-> exposure.reads + rr.reads,
                  cache |-> rr.cache]
            ELSE results(exposure, rr, sort_values(rr.out.rows))
        with_exposure(exposure) ==
            IF exposure.out.err # "" THEN exposure
            ELSE with_rr(exposure, call_relative_risk(self, exposure.cache, b))
    IN  with_exposure(call_exposure_rates(self, c, b))

(***************************************************************************)
(* The methods over every entity of a catalog.  order is the order in      *)
(* which the copied set yields its elements (pop, then the for loop): any  *)
(* enumeration of the set.                                                 *)
(***************************************************************************)
\* the index a result table carries (0, 1, ...), which reset_index() turns
\* into the column index of the appended table
indexed(rows) == list([p \in 1..Len(rows) |-> [index |-> p - 1] @@ rows[p]])

\* table.append(...) over the results of the entities, up to the first
\* call that raises
RECURSIVE append_results(_)
append_results(results) ==
    IF results = <<>> THEN Done(<<>>, 0)
    ELSE LET joined(head, rest) ==
                IF rest.out.err # "" THEN Fail(rest.out.err, head.reads + rest.reads)
                ELSE Done(indexed(head.out.rows) \o rest.out.rows,
                          head.reads + rest.reads)
             next(head) ==
                IF head.out.err # "" THEN head
                ELSE joined(head, append_results(Tail(results)))
         IN  next(Head(results))

\* BFP_ArtifactTool.PAF_all_causes_for_year_with_age_limit
PAF_all_causes_for_year_with_age_limit(self, a, order) ==
    IF "all_causes" \notin self.causes THEN Fail("KeyError", 0)
    ELSE IF order = <<>> THEN Fail("KeyError", 0)
    ELSE append_results([k \in 1..Len(order) |->
            PAF_for_year_with_age_limit(self, [a EXCEPT !.name = order[k]])])

\* BFP_ArtifactTool.CSMR_all_causes_for_year_with_age_limit
CSMR_all_causes_for_year_with_age_limit(self, a, order) ==
    IF "all_causes" \notin self.causes THEN Fail("KeyError", 0)
    ELSE IF order = <<>> THEN Fail("KeyError", 0)
    ELSE append_results([k \in 1..Len(order) |->
            CSMR_for_year_with_age_limit(self, [a EXCEPT !.name = order[k]])])

\* BFP_ArtifactTool.incidence_all_causes_for_year_with_age_limit
incidence_all_causes_for_year_with_age_limit(self, a, order) ==
    IF "all_causes" \notin self.causes THEN Fail("KeyError", 0)
    ELSE IF order = <<>> THEN Fail("KeyError", 0)
    ELSE append_results([k \in 1..Len(order) |->
            incidence_for_year_with_age_limit(self, [a EXCEPT !.name = order[k]])])

\* the SEV tables of the risk factors of order appended, each call made
\* with the caches the call before it left
RECURSIVE SEV_appended(_, _, _, _)
SEV_appended(self, c, a, order) ==
    IF order = <<>> THEN [out |-> Ok(<<>>), reads |-> 0, cache |-> c]
    ELSE LET joined(head, rest) ==
                [out |-> IF rest.out.err # "" THEN rest.out
                         ELSE Ok(indexed(head.out.rows) \o rest.out.rows),
                 reads |-> head.reads + rest.reads,
                 cache |-> rest.cache]
             next(head) ==
                IF head.out.err # "" THEN head
                ELSE joined(head, SEV_appended(self, head.cache, a, Tail(order)))
         IN  next(SEV_for_year_with_age_limit(self, c, [a EXCEPT !.name = order[1]]))

\* BFP_ArtifactTool.SEV_all_risk_factors_for_year_with_age_limit
SEV_all_risk_factors_for_year_with_age_limit(self, c, a, order) ==
    IF order = <<>> THEN [out |-> Raise("KeyError"), reads |-> 0, cache |-> c]
    ELSE SEV_appended(self, c, a, order)

(***************************************************************************)
(* The artifacts the metric methods are applied to                         *)
(***************************************************************************)
MaxStoreDraws == 2

Params == {"cat1", "cat2"}
StoreSexes == {"Male", "Both"}
StoreYear == CHOOSE y \in Years : \A o \in Years : y <= o
RRCauses == {"c1", "c2"}

\* every cell of a product of columns, as a sequence of identifier tuples
RECURSIVE SetToSeq(_)
SetToSeq(set) ==
    IF set = {} THEN <<>>
    ELSE LET x == CHOOSE y \in set : TRUE
         IN  <<x>> \o SetToSeq(set \ {x})

\* a dense draw table: a row for every identifier of ids and every draw,
\* with the value val gives the identifier, plus the draw index
dense_table(ids, val) ==
    LET cells == SetToSeq(ids \X (0..(MaxStoreDraws - 1)))
    IN  [p \in 1..Len(cells) |->
            [id |-> cells[p][1], draw |-> cells[p][2],
             value |-> val[cells[p][1]] + cells[p][2]]]

ExposureIds ==
    {<<I(a), I(StoreYear), S("Both"), S(par)>> : a \in Ages, par \in Params}
RelativeRiskIds ==
    {<<I(a), I(StoreYear), S("Both"), S(par), S(cs)>> :
        a \in Ages, par \in Params, cs \in RRCauses}
PafIds ==
    {<<I(a), I(StoreYear), S("Both"), S(rk)>> : a \in Ages, rk \in {"r1", "r2"}}
CauseIds == {<<I(a), I(StoreYear), S(x)>> : a \in Ages, x \in StoreSexes}

RiskTables(r, v) ==
    (<<"risk_factor", r, "exposure">> :>
        dense_table(ExposureIds, [id \in ExposureIds |-> v[id[1].i, id[4].s]]))
    @@ (<<"risk_factor", r, "relative_risk">> :>
        dense_table(RelativeRiskIds,
            [id \in RelativeRiskIds |->
                v[id[1].i, id[4].s] + (IF id[5].s = "c2" THEN 2 ELSE 0)]))

CauseTables(v) ==
    (<<"cause", "c1", "population_attributable_fraction">> :>
        dense_table(PafIds,
            [id \in PafIds |-> v[id[1].i, IF id[4].s = "r1" THEN "cat1" ELSE "cat2"]]))
    @@ (<<"cause", "c1", "cause_specific_mortality">> :>
        dense_table(CauseIds, [id \in CauseIds |-> v[id[1].i, "cat1"]]))
    @@ (<<"cause", "c1", "incidence">> :>
        dense_table(CauseIds, [id \in CauseIds |-> v[id[1].i, "cat2"]]))
    @@ (<<"cause", "all_causes", "death">> :>
        dense_table(CauseIds, [id \in CauseIds |-> v[id[1].i, "cat1"]]))

\* the store with the risks of risk_names, every value drawn from v
MakeStore(risk_names, v) ==
    IF "r2" \in risk_names
    THEN RiskTables("r1", v) @@ RiskTables("r2", v) @@ CauseTables(v)
    ELSE RiskTables("r1", v) @@ CauseTables(v)

\* the population structure with w[a] people of age a per sex, over the
\* ages of ages
MakePopulation(ages, w) ==
    LET cells == SetToSeq(ages \X StoreSexes)
    IN  [p \in 1..Len(cells) |->
            [age |-> I(cells[p][1]), year |-> I(StoreYear), sex |-> S(cells[p][2]),
             population |-> IF cells[p][2] = "Both" THEN 2 * w[cells[p][1]]
                            ELSE w[cells[p][1]]]]

Classes == {"ArtifactTool", "BFP_ArtifactTool"}

\* __init__: the store is opened and the catalog parsed from its paths
InitArtifacts ==
    /\ \/ /\ hdf \in {MakeStore({"r1"}, v) : v \in [Ages \X Params -> Values]}
          /\ pop_table \in {MakePopulation(ages, w) :
                                ages \in {Ages, {1}}, w \in [Ages -> Populations]}
       \/ /\ hdf \in {MakeStore({"r1", "r2"}, v) : v \in [Ages \X Params -> {1}]}
          /\ pop_table \in {MakePopulation(Ages, w) : w \in [Ages -> {50}]}
    /\ \E cls \in Classes :
        tool = [cls |-> cls,
                risks |-> parse_risks(DOMAIN hdf \cup {<<"population", "structure">>}),
                causes |-> parse_causes(DOMAIN hdf \cup {<<"population", "structure">>})]
    /\ cache = EmptyCache
    /\ table = <<>>
    /\ call = "none"
    /\ args = NoArgs
    /\ ret = Raise("")
    /\ reads = 0
    /\ evicted = FALSE

(***************************************************************************)
(* The calls                                                               *)
(***************************************************************************)
RiskNames == {"r1", "r2"}
CauseNames == {"c1", "c2", "all_causes"}
AgeLimits == {<<0, 500>>, <<0, 100000>>}

Args(names) ==
    {[name |-> nm, year |-> y, lower |-> lim[1], upper |-> lim[2]] :
        nm \in names, y \in Years, lim \in AgeLimits}

Self == [cls |-> tool.cls, hdf |-> hdf, pop |-> pop_table,
         risks |-> tool.risks, causes |-> tool.causes]

Returns(method, a, r) ==
    LET result == r
    IN  /\ call' = method
        /\ args' = a
        /\ ret' = result.out
        /\ reads' = result.reads
        /\ cache' = result.cache
        /\ evicted' = (evicted \/ \E m \in Memoized : \E e \in DOMAIN cache[m] :
                            \A o \in DOMAIN result.cache[m] :
                                result.cache[m][o].key # cache[m][e].key)
        /\ UNCHANGED <<table, pop_table, hdf, tool>>

IsBFP == tool.cls = "BFP_ArtifactTool"

\* The calls of SpecMetrics: one call on a freshly opened artifact.
PopulationForYearWithAgeLimit ==
    \E a \in Args({""}) :
        /\ call = "none"
        /\ Returns("population_for_year_with_age_limit", a,
                   call_population_for_year_with_age_limit(Self, cache, a))

PopulationForYear ==
    \E a \in Args({""}) :
        /\ call = "none"
        /\ a.lower = 0 /\ a.upper = 500
        /\ Returns("population_for_year", a, call_population_for_year(Self, cache, a))

ExposureRates ==
    \E a \in Args(RiskNames) :
        /\ call = "none"
        /\ Returns("exposure_rates_by_year_with_age_limit", a,
                   call_exposure_rates(Self, cache, a))

RelativeRisk ==
    \E a \in Args(RiskNames) :
        /\ call = "none"
        /\ Returns("relative_risk_by_year_with_age_limit", a,
                   call_relative_risk(Self, cache, a))

SEV ==
    \E a \in Args(RiskNames) :
        /\ call = "none" /\ IsBFP
        /\ Returns("SEV_for_year_with_age_limit", a,
                   SEV_for_year_with_age_limit(Self, cache, a))

PAF ==
    \E a \in Args(CauseNames) :
        /\ call = "none" /\ IsBFP
        /\ Returns("PAF_for_year_with_age_limit", a,
                   Plain(PAF_for_year_with_age_limit(Self, a), cache))

CSMR ==
    \E a \in Args(CauseNames) :
        /\ call = "none" /\ IsBFP
        /\ Returns("CSMR_for_year_with_age_limit", a,
                   Plain(CSMR_for_year_with_age_limit(Self, a), cache))

Incidence ==
    \E a \in Args(CauseNames) :
        /\ call = "none" /\ IsBFP
        /\ Returns("incidence_for_year_with_age_limit", a,
                   Plain(incidence_for_year_with_age_limit(Self, a), cache))

NextMetrics ==
    \/ PopulationForYearWithAgeLimit
    \/ PopulationForYear
    \/ ExposureRates
    \/ RelativeRisk
    \/ SEV
    \/ PAF
    \/ CSMR
    \/ Incidence

SpecMetrics == InitArtifacts /\ [][NextMetrics]_vars

(***************************************************************************)
(* What the metrics are meant to be, stated on the stored tables           *)
(***************************************************************************)
ExposureMethod == "exposure_rates_by_year_with_age_limit"

\* the identifier keys of the rows of tbl within the year and the age limits
Selected(tbl, a) ==
    {tbl[p].id : p \in {q \in DOMAIN tbl :
        /\ tbl[q].id[2].i = a.year
        /\ a.lower <= 100 * tbl[q].id[1].i
        /\ 100 * tbl[q].id[1].i <= a.upper}}

\* the population count of the population-structure row with the age, year
\* and sex of an identifier key
PopulationOf(key) ==
    LET q == CHOOSE x \in DOMAIN pop_table :
                /\ pop_table[x].age = key[1]
                /\ pop_table[x].year = key[2]
                /\ pop_table[x].sex = key[3]
    IN  pop_table[q].population

RECURSIVE SumMeanTimesPopulation(_, _)
SumMeanTimesPopulation(tbl, keys) ==
    IF keys = {} THEN Rat(0, 1)
    ELSE LET key == CHOOSE x \in keys : TRUE
         IN  RatAdd(RatScale(OwnMean(tbl, key), PopulationOf(key)),
                    SumMeanTimesPopulation(tbl, keys \ {key}))

RECURSIVE SumPopulation(_)
SumPopulation(keys) ==
    IF keys = {} THEN 0
    ELSE LET key == CHOOSE x \in keys : TRUE
         IN  PopulationOf(key) + SumPopulation(keys \ {key})

RECURSIVE SumMean(_, _)
SumMean(tbl, keys) ==
    IF keys = {} THEN Rat(0, 1)
    ELSE LET key == CHOOSE x \in keys : TRUE
         IN  RatAdd(OwnMean(tbl, key), SumMean(tbl, keys \ {key}))

\* sum(value_mean * population) / sum(population) over the summary rows keys
PopulationWeightedMean(tbl, keys) ==
    RatDiv(SumMeanTimesPopulation(tbl, keys), SumPopulation(keys))

ExposureTable == hdf[<<"risk_factor", args.name, "exposure">>]

\* the summary rows of the call, and those of one parameter
ExposureRows == Selected(ExposureTable, args)
RowsOfParameter(par) == {key \in ExposureRows : key[ParameterCol] = par}
ExposureParameters == {key[ParameterCol] : key \in ExposureRows}

\* the parameter and the rate of a returned row, for either class
ParameterOf(row) == row.parameter
RateOf(row) == IF IsBFP THEN row.exposure_rate ELSE row.rate
Label(par) == IF IsBFP THEN levels(par) ELSE par

UniformWeights(keys) ==
    \A k1, k2 \in keys : PopulationOf(k1) = PopulationOf(k2)

ExposureReturned == call = ExposureMethod /\ ret.err = ""

(***************************************************************************)
(* C6: exposure_rates_by_year_with_age_limit returns exactly one row per   *)
(* parameter of the summary rows within the year and the age limits; the   *)
(* row's rate is sum(value_mean * population) / sum(population) over the   *)
(* summary rows of that parameter, which is the plain mean of value_mean   *)
(* when the population weights are uniform.                                *)
(***************************************************************************)
C6_ExposureRates ==
    ExposureReturned =>
        /\ Len(ret.rows) = Cardinality(ExposureParameters)
        /\ \A par \in ExposureParameters :
            \E j \in DOMAIN ret.rows :
                /\ ParameterOf(ret.rows[j]) = Label(par)
                /\ \A o \in DOMAIN ret.rows :
                    ParameterOf(ret.rows[o]) = Label(par) => o = j
                /\ RatEq(RateOf(ret.rows[j]),
                         PopulationWeightedMean(ExposureTable, RowsOfParameter(par)))
                /\ UniformWeights(RowsOfParameter(par)) =>
                    RatEq(RateOf(ret.rows[j]),
                          RatDiv(SumMean(ExposureTable, RowsOfParameter(par)),
                                 Cardinality(RowsOfParameter(par))))

\* two parameters with different rates were returned, computed from rows
\* whose population weights differ
C6_Witness ==
    /\ ExposureReturned
    /\ Len(ret.rows) = 2
    /\ ~RatEq(RateOf(ret.rows[1]), RateOf(ret.rows[2]))
    /\ \E par \in ExposureParameters : ~UniformWeights(RowsOfParameter(par))

\* the scoped metric methods, by the catalog their name argument is looked up in
RiskMethods == {"exposure_rates_by_year_with_age_limit",
                "relative_risk_by_year_with_age_limit",
                "SEV_for_year_with_age_limit"}
CauseMethods == {"PAF_for_year_with_age_limit", "CSMR_for_year_with_age_limit",
                 "incidence_for_year_with_age_limit"}

UnknownEntity ==
    \/ call \in RiskMethods /\ args.name \notin tool.risks
    \/ call \in CauseMethods /\ args.name \notin tool.causes

(***************************************************************************)
(* C8: a scoped metric method called with a cause or risk-factor name that *)
(* is not in the catalog built at construction fails with the unknown-     *)
(* entity error of that catalog before it reads the store.                 *)
(***************************************************************************)
C8_UnknownEntityBeforeStore ==
    UnknownEntity =>
        /\ ret.err = (IF call \in RiskMethods THEN NotARisk ELSE NotACause)
        /\ ret.rows = <<>>
        /\ reads = 0

\* SEV was called with a risk factor that the catalog does not hold
C8_Witness ==
    /\ UnknownEntity
    /\ call = "SEV_for_year_with_age_limit"
    /\ tool.risks # {}
    /\ ret.err = NotARisk

\* the positive constants the population counts are multiplied by
Scales == {2, 3}

WeightedMethods == {"exposure_rates_by_year_with_age_limit",
                    "relative_risk_by_year_with_age_limit",
                    "PAF_for_year_with_age_limit", "CSMR_for_year_with_age_limit",
                    "incidence_for_year_with_age_limit"}

\* the tool over the population structure with every count multiplied by k
Scaled(k) ==
    [Self EXCEPT !.pop = [q \in DOMAIN pop_table |->
        [pop_table[q] EXCEPT !.population = k * pop_table[q].population]]]

\* the first call of a method on the tool self
FirstCall(self, method, a) ==
    IF method = "exposure_rates_by_year_with_age_limit"
    THEN call_exposure_rates(self, EmptyCache, a).out
    ELSE IF method = "relative_risk_by_year_with_age_limit"
    THEN call_relative_risk(self, EmptyCache, a).out
    ELSE IF method = "PAF_for_year_with_age_limit"
    THEN PAF_for_year_with_age_limit(self, a).out
    ELSE IF method = "CSMR_for_year_with_age_limit"
    THEN CSMR_for_year_with_age_limit(self, a).out
    ELSE incidence_for_year_with_age_limit(self, a).out

(***************************************************************************)
(* C9: multiplying every population count of the population structure by   *)
(* a positive constant leaves what the exposure_rate, relative_risk, PAF,  *)
(* CSMR and incidence methods return unchanged, for every group.           *)
(***************************************************************************)
C9_ScaleInvariant ==
    call \in WeightedMethods =>
        \A k \in Scales : FirstCall(Scaled(k), call, args) = ret

\* a weighted average was returned for a group whose rows differ both in
\* their population and in their mean
C9_Witness ==
    /\ call = "relative_risk_by_year_with_age_limit"
    /\ ret.err = ""
    /\ Len(ret.rows) > 1
    /\ \E k1, k2 \in Selected(hdf[<<"risk_factor", args.name, "relative_risk">>], args) :
        /\ k1[ParameterCol] = k2[ParameterCol] /\ k1[CauseCol] = k2[CauseCol]
        /\ PopulationOf(k1) # PopulationOf(k2)
        /\ ~RatEq(OwnMean(hdf[<<"risk_factor", args.name, "relative_risk">>], k1),
                  OwnMean(hdf[<<"risk_factor", args.name, "relative_risk">>], k2))

(***************************************************************************)
(* A session: any number of calls on one artifact                          *)
(***************************************************************************)
SessionValues == [x \in Ages \X Params |-> IF x[2] = "cat1" THEN 1 ELSE 3]
SessionWeights == [a \in Ages |-> IF a = 1 THEN 50 ELSE 100]

InitSession ==
    /\ hdf = MakeStore({"r1"}, SessionValues)
    /\ pop_table = MakePopulation(Ages, SessionWeights)
    /\ \E cls \in Classes :
        tool = [cls |-> cls,
                risks |-> parse_risks(DOMAIN hdf \cup {<<"population", "structure">>}),
                causes |-> parse_causes(DOMAIN hdf \cup {<<"population", "structure">>})]
    /\ cache = EmptyCache
    /\ table = <<>>
    /\ call = "none"
    /\ args = NoArgs
    /\ ret = Raise("")
    /\ reads = 0
    /\ evicted = FALSE

\* the calls of a session.  The sessions explored are, on an ArtifactTool,
\* the population methods and the exposure rates and, on a
\* BFP_ArtifactTool, the exposure rates, the relative risks and the SEV,
\* each with every age limit of SessionLimits.
SessionLimits == AgeLimits \cup {<<100, 100000>>}

SessionArgs(names) ==
    {[name |-> nm, year |-> StoreYear, lower |-> lim[1], upper |-> lim[2]] :
        nm \in names, lim \in SessionLimits}

AgainPopulationForYearWithAgeLimit ==
    \E a \in SessionArgs({""}) :
        /\ ~IsBFP
        /\ Returns("population_for_year_with_age_limit", a,
                   call_population_for_year_with_age_limit(Self, cache, a))

AgainPopulationForYear ==
    \E a \in SessionArgs({""}) :
        /\ ~IsBFP
        /\ a.lower = 0 /\ a.upper = 500
        /\ Returns("population_for_year", a, call_population_for_year(Self, cache, a))

AgainExposureRates ==
    \E a \in SessionArgs({"r1"}) :
        /\ a.name \in RiskNames
        /\ Returns("exposure_rates_by_year_with_age_limit", a,
                   call_exposure_rates(Self, cache, a))

AgainRelativeRisk ==
    \E a \in SessionArgs({"r1"}) :
        /\ IsBFP
        /\ Returns("relative_risk_by_year_with_age_limit", a,
                   call_relative_risk(Self, cache, a))

AgainSEV ==
    \E a \in SessionArgs({"r1"}) :
        /\ IsBFP
        /\ Returns("SEV_for_year_with_age_limit", a,
                   SEV_for_year_with_age_limit(Self, cache, a))

NextSession ==
    \/ AgainPopulationForYearWithAgeLimit
    \/ AgainPopulationForYear
    \/ AgainExposureRates
    \/ AgainRelativeRisk
    \/ AgainSEV

SpecSession == InitSession /\ [][NextSession]_vars

\* what a method returns or raises when nothing is cached
Fresh(method, a) ==
    IF method = "population_for_year_with_age_limit"
    THEN call_population_for_year_with_age_limit(Self, EmptyCache, a).out
    ELSE IF method = "population_for_year"
    THEN call_population_for_year(Self, EmptyCache, a).out
    ELSE IF method = "SEV_for_year_with_age_limit"
    THEN SEV_for_year_with_age_limit(Self, EmptyCache, a).out
    ELSE FirstCall(Self, method, a)

(***************************************************************************)
(* C7: within a session, after any sequence of calls (also ones that fill  *)
(* a cache and evict entries, with calls of other methods in between), a   *)
(* call returns what the first call with its arguments returned: what a    *)
(* fresh computation against the unchanged store returns.                  *)
(***************************************************************************)
C7_MemoizedEqualsFresh ==
    call # "none" =>
        /\ ret = Fresh(call, args)
        /\ \A m \in Memoized : Len(cache[m]) <= maxsize

\* a memoized method answered from its cache (no read of the store) after
\* some cache had evicted an entry
C7_Witness ==
    /\ evicted
    /\ call \in Memoized
    /\ ret.err = ""
    /\ reads = 0
    /\ Len(cache[call]) = maxsize

(***************************************************************************)
(* The population totals: population_for_year_with_age_limit and           *)
(* population_for_year on population structures of any rows                *)
(***************************************************************************)
MaxCensusRows == 2

CensusAges == {0, 5, 6}
CensusYears == {2016, 2017}
CensusPopulations == {51, 100}

CensusRows == {[age |-> I(a), year |-> I(y), sex |-> S(x), population |-> n] :
                a \in CensusAges, y \in CensusYears, x \in Sexes,
                n \in CensusPopulations}

CensusLimits == {<<0, 500>>, <<500, 600>>, <<0, 100000>>}

CensusArgs ==
    {[name |-> "", year |-> y, lower |-> lim[1], upper |-> lim[2]] :
        y \in CensusYears, lim \in CensusLimits}

InitCensus ==
    /\ hdf = NoStore
    /\ pop_table \in UNION {[1..n -> CensusRows] : n \in 0..MaxCensusRows}
    /\ \E cls \in Classes : tool = [cls |-> cls, risks |-> {}, causes |-> {}]
    /\ cache = EmptyCache
    /\ table = <<>>
    /\ call = "none"
    /\ args = NoArgs
    /\ ret = Raise("")
    /\ reads = 0
    /\ evicted = FALSE

CensusForYearWithAgeLimit ==
    \E a \in CensusArgs :
        /\ call = "none"
        /\ Returns("population_for_year_with_age_limit", a,
                   call_population_for_year_with_age_limit(Self, cache, a))

\* population_for_year takes the year only
CensusForYear ==
    \E a \in CensusArgs :
        /\ call = "none"
        /\ a.lower = 0 /\ a.upper = 500
        /\ Returns("population_for_year", a, call_population_for_year(Self, cache, a))

NextCensus ==
    \/ CensusForYearWithAgeLimit
    \/ CensusForYear

SpecCensus == InitCensus /\ [][NextCensus]_vars

\* the population-structure rows of a year with lower <= age <= upper, the
\* limits in hundredths of a year
WithinYearAndAges(yr, lower, upper) ==
    {q \in DOMAIN pop_table :
        /\ pop_table[q].year = I(yr)
        /\ lower <= 100 * pop_table[q].age.i
        /\ 100 * pop_table[q].age.i <= upper}

RECURSIVE PopulationOver(_)
PopulationOver(qs) ==
    IF qs = {} THEN 0
    ELSE LET q == CHOOSE x \in qs : TRUE
         IN  pop_table[q].population + PopulationOver(qs \ {q})

HalfOf(n) == Ok(<<[value |-> Rat(n, 2)]>>)

\* the rows of end-to-end scenario 1
ScenarioOneRows ==
    <<[age |-> I(0), year |-> I(2016), sex |-> S("Male"), population |-> 100],
      [age |-> I(0), year |-> I(2016), sex |-> S("Female"), population |-> 100]>>

(***************************************************************************)
(* C11: population_for_year_with_age_limit(year, lower, upper) returns     *)
(* half of the sum of the population column over exactly the population-   *)
(* structure rows with that year and lower <= age <= upper, both bounds    *)
(* inclusive; population_for_year(year) returns what                       *)
(* population_for_year_with_age_limit(year, 0, 1000) returns; the rows     *)
(* (0, 2016, Male, 100) and (0, 2016, Female, 100) give 100.               *)
(***************************************************************************)
C11_HalfThePopulation ==
    /\ call = "population_for_year_with_age_limit" =>
        ret = HalfOf(PopulationOver(
                WithinYearAndAges(args.year, args.lower, args.upper)))
    /\ call = "population_for_year" =>
        /\ ret = HalfOf(PopulationOver(WithinYearAndAges(args.year, 0, 100 * 1000)))
        /\ ret = call_population_for_year_with_age_limit(Self, EmptyCache,
                    [args EXCEPT !.lower = 0, !.upper = 100 * 1000]).out
        /\ (pop_table = ScenarioOneRows /\ args.year = 2016) =>
                ret.rows[1].value = Rat(100, 1)

\* a total was returned over a row whose age is the upper limit, with a row
\* above the limit left out, and the half is not a whole number
C11_Witness ==
    /\ call = "population_for_year_with_age_limit"
    /\ \E q \in WithinYearAndAges(args.year, args.lower, args.upper) :
            100 * pop_table[q].age.i = args.upper
    /\ \E q \in DOMAIN pop_table :
            pop_table[q].year = I(args.year) /\ 100 * pop_table[q].age.i > args.upper
    /\ ret.err = ""
    /\ ret.rows[1].value = Rat(51, 2)

(***************************************************************************)
(* Artifacts of any catalog: the stores hold tables for any causes of      *)
(* CatalogCauses and any risk factors of RiskNames                         *)
(***************************************************************************)
CatalogCauses == {"c1", "c2", "all_causes"}
CauseLeaves == {"population_attributable_fraction", "cause_specific_mortality",
                "incidence"}

\* the table of a cause other than all_causes: those of CauseTables, the
\* values of c2 moved up by 2
cause_table(cs, leaf, v) ==
    LET shift == IF cs = "c2" THEN 2 ELSE 0
    IN  IF leaf = "population_attributable_fraction"
        THEN dense_table(PafIds, [id \in PafIds |->
                v[id[1].i, IF id[4].s = "r1" THEN "cat1" ELSE "cat2"] + shift])
        ELSE dense_table(CauseIds, [id \in CauseIds |->
                v[id[1].i, IF leaf = "incidence" THEN "cat2" ELSE "cat1"] + shift])

CatalogPaths(cause_names, risk_names) ==
    {<<"cause", cs, leaf>> : cs \in cause_names \ {"all_causes"}, leaf \in CauseLeaves}
    \cup {<<"cause", cs, "death">> : cs \in cause_names \cap {"all_causes"}}
    \cup {<<"risk_factor", r, leaf>> : r \in risk_names,
                                       leaf \in {"exposure", "relative_risk"}}

CatalogStore(cause_names, risk_names, v) ==
    [pth \in CatalogPaths(cause_names, risk_names) |->
        IF pth[1] = "risk_factor" THEN RiskTables(pth[2], v)[pth]
        ELSE IF pth[2] = "all_causes" THEN CauseTables(v)[pth]
        ELSE cause_table(pth[2], pth[3], v)]

CatalogValues ==
    {[x \in Ages \X Params |-> IF x[2] = "cat1" THEN n ELSE m] : n, m \in Values}
CatalogWeights ==
    {[a \in Ages |-> IF a = 1 THEN n ELSE 100] : n \in Populations}

\* __init__ of a BFP_ArtifactTool on a store of any catalog
InitCatalogs ==
    /\ hdf \in {CatalogStore(cause_names, risk_names, v) :
                    cause_names \in SUBSET CatalogCauses,
                    risk_names \in SUBSET RiskNames,
                    v \in CatalogValues}
    /\ pop_table \in {MakePopulation(Ages, w) : w \in CatalogWeights}
    /\ tool = [cls |-> "BFP_ArtifactTool",
               risks |-> parse_risks(DOMAIN hdf \cup {<<"population", "structure">>}),
               causes |-> parse_causes(DOMAIN hdf \cup {<<"population", "structure">>})]
    /\ cache = EmptyCache
    /\ table = <<>>
    /\ call = "none"
    /\ args = NoArgs
    /\ ret = Raise("")
    /\ reads = 0
    /\ evicted = FALSE

\* the orders in which a set can yield its elements
Orders(set) ==
    {order \in [1..Cardinality(set) -> set] :
        \A x \in set : \E k \in DOMAIN order : order[k] = x}

\* The calls: tmp_causes and tmp_risks are copies, the catalog of the tool
\* is left as it is.
PAFAllCauses ==
    \E a \in Args({""}), order \in Orders(tool.causes \ {"all_causes"}) :
        /\ call = "none"
        /\ Returns("PAF_all_causes_for_year_with_age_limit", a,
                   Plain(PAF_all_causes_for_year_with_age_limit(Self, a, order), cache))

CSMRAllCauses ==
    \E a \in Args({""}), order \in Orders(tool.causes \ {"all_causes"}) :
        /\ call = "none"
        /\ Returns("CSMR_all_causes_for_year_with_age_limit", a,
                   Plain(CSMR_all_causes_for_year_with_age_limit(Self, a, order), cache))

IncidenceAllCauses ==
    \E a \in Args({""}), order \in Orders(tool.causes \ {"all_causes"}) :
        /\ call = "none"
        /\ Returns("incidence_all_causes_for_year_with_age_limit", a,
                   Plain(incidence_all_causes_for_year_with_age_limit(Self, a, order),
                         cache))

SEVAllRiskFactors ==
    \E a \in Args({""}), order \in Orders(tool.risks) :
        /\ call = "none"
        /\ Returns("SEV_all_risk_factors_for_year_with_age_limit", a,
                   SEV_all_risk_factors_for_year_with_age_limit(Self, cache, a, order))

NextCatalogs ==
    \/ PAFAllCauses
    \/ CSMRAllCauses
    \/ IncidenceAllCauses
    \/ SEVAllRiskFactors

SpecCatalogs == InitCatalogs /\ [][NextCatalogs]_vars

AllEntityMethods ==
    {"PAF_all_causes_for_year_with_age_limit",
     "CSMR_all_causes_for_year_with_age_limit",
     "incidence_all_causes_for_year_with_age_limit",
     "SEV_all_risk_factors_for_year_with_age_limit"}

\* the entities the call is to cover
Entities ==
    IF call = "SEV_all_risk_factors_for_year_with_age_limit" THEN tool.risks
    ELSE tool.causes \ {"all_causes"}

\* what the per-entity method gives for one entity on the artifact
PerEntity(nm) ==
    LET a == [args EXCEPT !.name = nm]
    IN  IF call = "PAF_all_causes_for_year_with_age_limit"
        THEN PAF_for_year_with_age_limit(Self, a).out
        ELSE IF call = "CSMR_all_causes_for_year_with_age_limit"
        THEN CSMR_for_year_with_age_limit(Self, a).out
        ELSE IF call = "incidence_all_causes_for_year_with_age_limit"
        THEN incidence_for_year_with_age_limit(Self, a).out
        ELSE SEV_for_year_with_age_limit(Self, EmptyCache, a).out

RECURSIVE Concatenation(_)
Concatenation(order) ==
    IF order = <<>> THEN <<>>
    ELSE PerEntity(order[1]).rows \o Concatenation(Tail(order))

\* the rows of a returned table without the column reset_index() adds
WithoutIndex(rows) ==
    [p \in DOMAIN rows |->
        [f \in DOMAIN rows[p] \ {"index"} |-> rows[p][f]]]

EveryEntityHasAResult == \A nm \in Entities : PerEntity(nm).err = ""

ConcatenatedOnce ==
    /\ ret.err = ""
    /\ \E order \in Orders(Entities) : WithoutIndex(ret.rows) = Concatenation(order)
    /\ \A p \in DOMAIN ret.rows :
        "cause" \in DOMAIN ret.rows[p] => ret.rows[p].cause # S("all_causes")

CatalogUnchanged ==
    /\ tool.causes = parse_causes(DOMAIN hdf)
    /\ tool.risks = parse_risks(DOMAIN hdf)

(***************************************************************************)
(* C12: each method over all causes or all risk factors returns, for every *)
(* catalog, the concatenation of the per-entity results of every catalog   *)
(* entity other than all_causes, each entity's rows exactly once and no    *)
(* rows for all_causes, also for catalogs without all_causes and catalogs  *)
(* with no other entity, and leaves the catalog unchanged.                 *)
(***************************************************************************)
C12_EveryEntityOnce ==
    call \in AllEntityMethods =>
        /\ CatalogUnchanged
        /\ EveryEntityHasAResult => ConcatenatedOnce

\* the same on the catalogs the methods can work on: the causes hold
\* all_causes (for the methods over causes) and at least one entity is left
EveryEntityOnceWhenCatalogued ==
    (/\ call \in AllEntityMethods
     /\ Entities # {}
     /\ call # "SEV_all_risk_factors_for_year_with_age_limit" =>
            "all_causes" \in tool.causes) =>
        /\ CatalogUnchanged
        /\ EveryEntityHasAResult => ConcatenatedOnce

\* two entities were covered and their rows returned
TwoEntitiesConcatenated ==
    /\ call \in AllEntityMethods
    /\ Cardinality(Entities) = 2
    /\ ret.err = ""
    /\ Len(ret.rows) >= 2

(***************************************************************************)
(* SEV on stores whose relative-risk table covers any cells of causes and  *)
(* parameters                                                              *)
(***************************************************************************)
RRCells == (SUBSET (RRCauses \X Params)) \ {{}}

\* the store of risk factor r1 with relative risks for the (cause,
\* parameter) pairs of cells only
SparseRiskStore(cells, v) ==
    LET ids == {id \in RelativeRiskIds : <<id[5].s, id[4].s>> \in cells}
    IN  (<<"risk_factor", "r1", "exposure">> :>
            dense_table(ExposureIds, [id \in ExposureIds |-> v[id[1].i, id[4].s]]))
        @@ (<<"risk_factor", "r1", "relative_risk">> :>
            dense_table(ids, [id \in ids |->
                v[id[1].i, id[4].s] + (IF id[5].s = "c2" THEN 2 ELSE 0)]))

\* __init__ of a BFP_ArtifactTool on such a store
InitRelativeRisks ==
    /\ hdf \in {SparseRiskStore(cells, v) : cells \in RRCells, v \in CatalogValues}
    /\ pop_table \in {MakePopulation(Ages, w) : w \in CatalogWeights}
    /\ tool = [cls |-> "BFP_ArtifactTool",
               risks |-> parse_risks(DOMAIN hdf \cup {<<"population", "structure">>}),
               causes |-> parse_causes(DOMAIN hdf \cup {<<"population", "structure">>})]
    /\ cache = EmptyCache
    /\ table = <<>>
    /\ call = "none"
    /\ args = NoArgs
    /\ ret = Raise("")
    /\ reads = 0
    /\ evicted = FALSE

NextSEV == SEV

SpecSEV == InitRelativeRisks /\ [][NextSEV]_vars

\* what the two methods SEV combines return on the artifact
ExposureResult == bfp_exposure_rates_by_year_with_age_limit(Self, args).out
RelativeRiskResult == bfp_relative_risk_by_year_with_age_limit(Self, args).out

SEVCalled ==
    /\ call = "SEV_for_year_with_age_limit"
    /\ ExposureResult.err = ""
    /\ RelativeRiskResult.err = ""

\* the exposure rate of the parameter with a label
ExposureOfParameter(label) ==
    LET rows == ExposureResult.rows
        j == CHOOSE x \in DOMAIN rows : rows[x].parameter = label
    IN  rows[j].exposure_rate

RelativeRiskCauses ==
    {RelativeRiskResult.rows[p].cause : p \in DOMAIN RelativeRiskResult.rows}

\* (sum of relative_risk * exposure of the same parameter, minus 1) over
\* (the maximum relative_risk minus 1), over the relative risks of a cause
PairedSEV(cs) ==
    LET rows == RelativeRiskResult.rows
        own == {p \in DOMAIN rows : rows[p].cause = cs}
        products == [p \in DOMAIN rows |->
                        RatMul(rows[p].relative_risk,
                               ExposureOfParameter(rows[p].parameter))]
        risks == [p \in DOMAIN rows |-> rows[p].relative_risk]
    IN  RatQuot(RatMinus1(RatSum(products, own)), RatMinus1(RatMax(risks, own)))

\* the relative-risk result has a row for every cause and every parameter
\* of the exposure result
EveryCauseHasEveryParameter ==
    \A cs \in RelativeRiskCauses : \A e \in DOMAIN ExposureResult.rows :
        \E p \in DOMAIN RelativeRiskResult.rows :
            /\ RelativeRiskResult.rows[p].cause = cs
            /\ RelativeRiskResult.rows[p].parameter = ExposureResult.rows[e].parameter

(***************************************************************************)
(* C13: SEV_for_year_with_age_limit multiplies every relative-risk row     *)
(* (cause, parameter) by the exposure rate of the same parameter, so that  *)
(* the SEV of every cause is (the sum over the cause's parameters of       *)
(* relative_risk * exposure of that parameter, minus 1) over (the maximum  *)
(* relative_risk of the cause minus 1), whatever the sort order of the     *)
(* parameter labels and whether or not every cause has a relative risk for *)
(* every exposure parameter.                                               *)
(***************************************************************************)
C13_PairedBySameParameter ==
    SEVCalled =>
        /\ ret.err = ""
        /\ Len(ret.rows) = Cardinality(RelativeRiskCauses)
        /\ \A cs \in RelativeRiskCauses :
            \E j \in DOMAIN ret.rows :
                /\ ret.rows[j].cause = cs
                /\ ret.rows[j].SEV = PairedSEV(cs)

\* what the code does when some cause lacks a relative risk for an exposure
\* parameter: the list of exposures is longer than the table, no SEV is
\* returned
SparseRelativeRisksFail ==
    (SEVCalled /\ ~EveryCauseHasEveryParameter) => ret = Raise("ValueError")

\* the exposure rate the code multiplies a relative risk of a parameter
\* label by on a full grid: that of the category at the position the label
\* has among the sorted labels
ExposureAtPositionOf(label) ==
    LET rows == ExposureResult.rows
        before == {x \in DOMAIN rows : CellLess(rows[x].parameter, label)}
    IN  rows[Cardinality(before) + 1].exposure_rate

PositionalSEV(cs) ==
    LET rows == RelativeRiskResult.rows
        own == {p \in DOMAIN rows : rows[p].cause = cs}
        products == [p \in DOMAIN rows |->
                        RatMul(rows[p].relative_risk,
                               ExposureAtPositionOf(rows[p].parameter))]
        risks == [p \in DOMAIN rows |-> rows[p].relative_risk]
    IN  RatQuot(RatMinus1(RatSum(products, own)), RatMinus1(RatMax(risks, own)))

\* what the code does on a full grid of causes and parameters: the pairing
\* is by position
FullGridPairedByPosition ==
    (SEVCalled /\ EveryCauseHasEveryParameter) =>
        /\ ret.err = ""
        /\ \A cs \in RelativeRiskCauses :
            \E j \in DOMAIN ret.rows :
                /\ ret.rows[j].cause = cs
                /\ ret.rows[j].SEV = PositionalSEV(cs)

\* a SEV was returned that differs from that of the pairing by parameter
MispairedSEVReturned ==
    /\ SEVCalled
    /\ ret.err = ""
    /\ \E j \in DOMAIN ret.rows :
        /\ ret.rows[j].SEV.d # 0
        /\ PairedSEV(ret.rows[j].cause).d # 0
        /\ ret.rows[j].SEV # PairedSEV(ret.rows[j].cause)

=============================================================================
